---- MODULE Spec2Model ----
(***************************************************************************)
(* tiny_lang_parser: the tree-walking Interpreter (src/src/parser/mod.rs,  *)
(* Interpreter::eval / eval_node) and the AST builders parse_program ..    *)
(* parse_factor.  i64 is modelled as a two's-complement integer of IntBits *)
(* bits, so that overflow, wrap-around and MIN / -1 all occur within the   *)
(* range TLC can compute.                                                  *)
(***************************************************************************)
EXTENDS Integers, Sequences, FiniteSets, TLC

\* ------------------------------------------------------------------ bounds
\* width of the modelled i64 (two's complement)
IntBits == 3
\* longest multi-statement slice handed to eval
MaxStmts == 3

RECURSIVE Pow2(_)
Pow2(n) == IF n = 0 THEN 1 ELSE 2 * Pow2(n - 1)

Modulus == Pow2(IntBits)
MaxInt == Pow2(IntBits - 1) - 1
MinInt == 0 - Pow2(IntBits - 1)
I64 == MinInt..MaxInt

\* variable names used by the programs
Names == {"x", "y"}

\* ------------------------------------------------------------------ ASTNode
Number(n) == [kind |-> "Number", n |-> n]
Identifier(name) == [kind |-> "Identifier", name |-> name]
Assignment(name, value) == [kind |-> "Assignment", name |-> name, value |-> value]
Add(l, r) == [kind |-> "Add", l |-> l, r |-> r]
Sub(l, r) == [kind |-> "Sub", l |-> l, r |-> r]
Mul(l, r) == [kind |-> "Mul", l |-> l, r |-> r]
Div(l, r) == [kind |-> "Div", l |-> l, r |-> r]

BinKinds == {"Add", "Sub", "Mul", "Div"}
Bin(op, l, r) == [kind |-> op, l |-> l, r |-> r]

\* ------------------------------------------------------------------ EvalError
NoError == [kind |-> "none"]
UndefinedVariable(name) == [kind |-> "UndefinedVariable", name |-> name]
DivisionByZero == [kind |-> "DivisionByZero"]
\* not an EvalError: the thread panics ("attempt to ... with overflow")
Panic == [kind |-> "panic"]

\* ------------------------------------------------------------------ HashMap
EmptyMap == [n \in {} |-> 0]

\* HashMap::insert: binds k, overwriting an earlier binding
InsertKeepOld(map, k, v) ==
    [n \in DOMAIN map \cup {k} |-> IF n \in DOMAIN map THEN map[n] ELSE v]

Insert(map, k, v) ==
    [n \in DOMAIN map \cup {k} |-> IF n = k THEN v ELSE map[n]]

\* ------------------------------------------------------------------ i64 arithmetic
Abs(a) == IF a < 0 THEN 0 - a ELSE a

\* two's-complement wrap of an exact result
Wrap(v) == ((v - MinInt) % Modulus) + MinInt

\* the floored quotient (what i64 `/` does not compute)
FloorDiv(a, b) ==
    IF b > 0 THEN a \div b ELSE (0 - a) \div (0 - b)

\* i64 `/`: the quotient rounded toward zero
TruncDiv(a, b) ==
    IF (a < 0) = (b < 0) THEN Abs(a) \div Abs(b) ELSE 0 - (Abs(a) \div Abs(b))

\* the outcome of `a op b` on i64: with overflow checks (debug profile) an
\* out-of-range result panics, without them (release profile) it wraps
Finish(env, writes, exact, oc) ==
    IF exact \in I64
    THEN [env |-> env, val |-> exact, err |-> NoError, writes |-> writes]
    ELSE IF oc
         THEN [env |-> env, val |-> 0, err |-> Panic, writes |-> writes]
         ELSE [env |-> env, val |-> Wrap(exact), err |-> NoError, writes |-> writes]

Fail(env, writes, e) == [env |-> env, val |-> 0, err |-> e, writes |-> writes]

\* ------------------------------------------------------------------ eval_node
\* a lookup that binds an absent name to 0: `*self.variables.entry(name).or_insert(0)`
lookup_or_insert(env, writes, name) ==
    IF name \in DOMAIN env
    THEN [env |-> env, val |-> env[name], err |-> NoError, writes |-> writes]
    ELSE [env |-> Insert(env, name, 0), val |-> 0, err |-> NoError, writes |-> writes]

\* a lookup that substitutes 0 for an absent name
lookup_or_default(env, writes, name) ==
    IF name \in DOMAIN env
    THEN [env |-> env, val |-> env[name], err |-> NoError, writes |-> writes]
    ELSE [env |-> env, val |-> 0, err |-> NoError, writes |-> writes]

\* self.variables.get(name).copied().ok_or_else(|| UndefinedVariable(name.clone()))
lookup(env, writes, name) ==
    IF name \in DOMAIN env
    THEN [env |-> env, val |-> env[name], err |-> NoError, writes |-> writes]
    ELSE Fail(env, writes, UndefinedVariable(name))

\* the Assignment arm with the insert made before the `?` on the value's outcome
store_unchecked(v, name) ==
    [env |-> Insert(v.env, name, v.val), val |-> v.val, err |-> v.err,
     writes |-> Append(v.writes, <<name, v.val>>)]

\* `let val = self.eval_node(value)?; self.variables.insert(name.clone(), val); Ok(val)`
\* given v, the outcome of eval_node(value)
store(v, name) ==
    IF v.err # NoError
    THEN v
    ELSE [env |-> Insert(v.env, name, v.val), val |-> v.val, err |-> NoError,
          writes |-> Append(v.writes, <<name, v.val>>)]

\* a division whose zero check comes after the native division
div_unchecked(env, writes, left_val, right_val, oc) ==
    IF right_val = 0 \/ (left_val = MinInt /\ right_val = 0 - 1)
    THEN Fail(env, writes, Panic)
    ELSE [env |-> env, val |-> TruncDiv(left_val, right_val), err |-> NoError,
          writes |-> writes]

\* `if right_val == 0 { return Err(DivisionByZero) } Ok(left_val / right_val)`
\* i64::MIN / -1 panics in every build profile
div_checked(env, writes, left_val, right_val, oc) ==
    IF right_val = 0
    THEN Fail(env, writes, DivisionByZero)
    ELSE IF left_val = MinInt /\ right_val = 0 - 1
         THEN Fail(env, writes, Panic)
         ELSE [env |-> env, val |-> TruncDiv(left_val, right_val), err |-> NoError,
               writes |-> writes]

\* the arm's arithmetic on the two operand values
apply_op(kind, env, writes, left_val, right_val, oc) ==
    CASE kind = "Add" -> Finish(env, writes, left_val + right_val, oc)
      [] kind = "Sub" -> Finish(env, writes, left_val - right_val, oc)
      [] kind = "Mul" -> Finish(env, writes, left_val * right_val, oc)
      [] kind = "Div" -> div_checked(env, writes, left_val, right_val, oc)

RECURSIVE eval_node(_, _, _, _)
RECURSIVE eval_operands(_, _, _, _, _)
RECURSIVE eval_operands_right_first(_, _, _, _, _)

\* the operands evaluated right to left
eval_operands_right_first(env, writes, l, r, oc) ==
    LET b == eval_node(env, writes, r, oc)
    IN  IF b.err # NoError
        THEN [env |-> b.env, writes |-> b.writes, err |-> b.err, left_val |-> 0, right_val |-> 0]
        ELSE LET a == eval_node(b.env, b.writes, l, oc)
             IN  [env |-> a.env, writes |-> a.writes, err |-> a.err,
                  left_val |-> a.val, right_val |-> b.val]

\* `let left_val = self.eval_node(l)?; let right_val = self.eval_node(r)?;`
eval_operands(env, writes, l, r, oc) ==
    LET a == eval_node(env, writes, l, oc)
    IN  IF a.err # NoError
        THEN [env |-> a.env, writes |-> a.writes, err |-> a.err, left_val |-> 0, right_val |-> 0]
        ELSE LET b == eval_node(a.env, a.writes, r, oc)
             IN  [env |-> b.env, writes |-> b.writes, err |-> b.err,
                  left_val |-> a.val, right_val |-> b.val]

\* Interpreter::eval_node on the environment env; writes is the list of the
\* inserts made so far, oc the build's overflow checks
eval_node(env, writes, node, oc) ==
    CASE node.kind = "Number" ->
           [env |-> env, val |-> node.n, err |-> NoError, writes |-> writes]
      [] node.kind = "Identifier" -> lookup(env, writes, node.name)
      [] node.kind = "Assignment" ->
           store(eval_node(env, writes, node.value, oc), node.name)
      [] node.kind \in BinKinds ->
           LET o == eval_operands(env, writes, node.l, node.r, oc)
           IN  IF o.err # NoError
               THEN Fail(o.env, o.writes, o.err)
               ELSE apply_op(node.kind, o.env, o.writes, o.left_val, o.right_val, oc)

\* ------------------------------------------------------------------ the grammar (tiny_lang.pest)
\* A source text is a sequence of characters.  The grammar engine yields a
\* tree of pairs [rule, str, inner]: str is the text the rule matched,
\* inner the pairs of its sub-rules.  Literals ( ) = ; yield no pair.
Digits == {"0", "1", "2", "3", "4", "5", "6", "7", "8", "9"}
Lower == {"a", "b", "x", "y", "z"}
Whitespace == {" ", "\n"}

DigitVal(c) ==
    CASE c = "0" -> 0 [] c = "1" -> 1 [] c = "2" -> 2 [] c = "3" -> 3 [] c = "4" -> 4
      [] c = "5" -> 5 [] c = "6" -> 6 [] c = "7" -> 7 [] c = "8" -> 8 [] c = "9" -> 9

NoPair == [rule |-> "none", str |-> <<>>, inner |-> <<>>]
NoMatch == [ok |-> FALSE, pos |-> 0, pair |-> NoPair]
Matched(rule, src, from, to, inner) ==
    [ok |-> TRUE, pos |-> to,
     pair |-> [rule |-> rule, str |-> SubSeq(src, from, to - 1), inner |-> inner]]

At(src, pos, set) == pos <= Len(src) /\ src[pos] \in set

RECURSIVE skip(_, _)
\* the implicit WHITESPACE* between the parts of a rule
skip(src, pos) == IF At(src, pos, Whitespace) THEN skip(src, pos + 1) ELSE pos

RECURSIVE run_end(_, _, _)
\* the position after the longest run of characters of set that starts at pos
run_end(src, pos, set) == IF At(src, pos, set) THEN run_end(src, pos + 1, set) ELSE pos

\* number = ASCII_DIGIT+
pest_number(src, pos) ==
    LET e == run_end(src, pos, Digits)
    IN  IF e = pos THEN NoMatch ELSE Matched("number", src, pos, e, <<>>)

\* identifier = ASCII_ALPHA_LOWER+
pest_identifier(src, pos) ==
    LET e == run_end(src, pos, Lower)
    IN  IF e = pos THEN NoMatch ELSE Matched("identifier", src, pos, e, <<>>)

\* F applied to the value of v, v being evaluated once
Bind(v, F(_)) == CHOOSE r \in {F(x) : x \in {v}} : TRUE

RECURSIVE pest_expression(_, _)
RECURSIVE pest_expression_rest(_, _, _)
RECURSIVE pest_term(_, _)
RECURSIVE pest_term_rest(_, _, _)
RECURSIVE pest_factor(_, _)

\* "(" expression ")" at pos
pest_parenthesized(src, pos) ==
    IF At(src, pos, {"("})
    THEN Bind(pest_expression(src, skip(src, pos + 1)), LAMBDA e :
           IF e.ok /\ At(src, skip(src, e.pos), {")"})
           THEN Matched("factor", src, pos, skip(src, e.pos) + 1, <<e.pair>>)
           ELSE NoMatch)
    ELSE NoMatch

\* factor = number | identifier | "(" expression ")"
pest_factor(src, pos) ==
    Bind(pest_number(src, pos), LAMBDA n :
      IF n.ok THEN Matched("factor", src, pos, n.pos, <<n.pair>>)
      ELSE Bind(pest_identifier(src, pos), LAMBDA i :
             IF i.ok THEN Matched("factor", src, pos, i.pos, <<i.pair>>)
             ELSE pest_parenthesized(src, pos)))

\* (mul_op factor)*: inner is the list of the pairs matched so far
pest_term_rest(src, pos, inner) ==
    Bind(skip(src, pos), LAMBDA o :
      IF At(src, o, {"*", "/"})
      THEN Bind(pest_factor(src, skip(src, o + 1)), LAMBDA f :
             IF f.ok
             THEN pest_term_rest(src, f.pos,
                      inner \o <<Matched("mul_op", src, o, o + 1, <<>>).pair, f.pair>>)
             ELSE [pos |-> pos, inner |-> inner])
      ELSE [pos |-> pos, inner |-> inner])

\* term = factor (mul_op factor)*
pest_term(src, pos) ==
    Bind(pest_factor(src, pos), LAMBDA f :
      IF ~f.ok THEN NoMatch
      ELSE Bind(pest_term_rest(src, f.pos, <<f.pair>>), LAMBDA r :
             Matched("term", src, pos, r.pos, r.inner)))

\* (add_op term)*
pest_expression_rest(src, pos, inner) ==
    Bind(skip(src, pos), LAMBDA o :
      IF At(src, o, {"+", "-"})
      THEN Bind(pest_term(src, skip(src, o + 1)), LAMBDA t :
             IF t.ok
             THEN pest_expression_rest(src, t.pos,
                      inner \o <<Matched("add_op", src, o, o + 1, <<>>).pair, t.pair>>)
             ELSE [pos |-> pos, inner |-> inner])
      ELSE [pos |-> pos, inner |-> inner])

\* expression = term (add_op term)*
pest_expression(src, pos) ==
    Bind(pest_term(src, pos), LAMBDA t :
      IF ~t.ok THEN NoMatch
      ELSE Bind(pest_expression_rest(src, t.pos, <<t.pair>>), LAMBDA r :
             Matched("expression", src, pos, r.pos, r.inner)))

\* assignment = identifier "=" expression
pest_assignment(src, pos) ==
    Bind(pest_identifier(src, pos), LAMBDA i :
      IF ~i.ok \/ ~At(src, skip(src, i.pos), {"="}) THEN NoMatch
      ELSE Bind(pest_expression(src, skip(src, skip(src, i.pos) + 1)), LAMBDA e :
             IF ~e.ok THEN NoMatch
             ELSE Matched("assignment", src, pos, e.pos, <<i.pair, e.pair>>)))

\* (assignment | expression)
pest_assignment_or_expression(src, pos) ==
    Bind(pest_assignment(src, pos), LAMBDA a :
      IF a.ok THEN a ELSE pest_expression(src, pos))

\* statement = (assignment | expression) ";"
pest_statement(src, pos) ==
    Bind(pest_assignment_or_expression(src, pos), LAMBDA m :
      IF m.ok /\ At(src, skip(src, m.pos), {";"})
      THEN Matched("statement", src, pos, skip(src, m.pos) + 1, <<m.pair>>)
      ELSE NoMatch)

RECURSIVE pest_statements(_, _, _)
\* statement*
pest_statements(src, pos, inner) ==
    Bind(pest_statement(src, skip(src, pos)), LAMBDA st :
      IF st.ok THEN pest_statements(src, st.pos, Append(inner, st.pair))
      ELSE [pos |-> pos, inner |-> inner])

\* TinyLangParser::parse(Rule::program, input), program = SOI statement* EOI:
\* the pairs of the match, or no match when text is left over
pest_program(src) ==
    Bind(pest_statements(src, 1, <<>>), LAMBDA r :
      IF skip(src, r.pos) = Len(src) + 1
      THEN [ok |-> TRUE, pos |-> Len(src) + 1,
            pair |-> [rule |-> "program", str |-> src,
                      inner |-> Append(r.inner, [rule |-> "EOI", str |-> <<>>, inner |-> <<>>])]]
      ELSE NoMatch)

\* ------------------------------------------------------------------ ParseError
NoParseError == [kind |-> "none"]
PestError == [kind |-> "PestError"]
UnexpectedRule(rule) == [kind |-> "UnexpectedRule", rule |-> rule]
InvalidNumber(text) == [kind |-> "InvalidNumber", text |-> text]
UnexpectedEnd(expected) == [kind |-> "UnexpectedEnd", expected |-> expected]

NoNode == [kind |-> "none"]
ParsedOk(node) == [ok |-> TRUE, node |-> node, err |-> NoParseError]
ParsedErr(e) == [ok |-> FALSE, node |-> NoNode, err |-> e]

\* ------------------------------------------------------------------ the AST builders
RECURSIVE Str(_)
\* as_str().to_string(): the characters as one string
Str(cs) == IF cs = <<>> THEN "" ELSE Head(cs) \o Str(Tail(cs))

RECURSIVE checked_digits(_, _, _)
\* the digits from position i on, accumulated with checked_mul and checked_add
checked_digits(cs, i, acc) ==
    IF i > Len(cs) THEN [ok |-> TRUE, val |-> acc]
    ELSE IF ~(cs[i] \in Digits) \/ acc * 10 > MaxInt \/ acc * 10 + DigitVal(cs[i]) > MaxInt
         THEN [ok |-> FALSE, val |-> 0]
         ELSE checked_digits(cs, i + 1, acc * 10 + DigitVal(cs[i]))

RECURSIVE saturating_digits(_, _, _)
\* the digits accumulated with saturating_mul and saturating_add
saturating_digits(cs, i, acc) ==
    IF i > Len(cs) THEN [ok |-> TRUE, val |-> acc]
    ELSE IF acc * 10 + DigitVal(cs[i]) > MaxInt
         THEN saturating_digits(cs, i + 1, MaxInt)
         ELSE saturating_digits(cs, i + 1, acc * 10 + DigitVal(cs[i]))

\* a conversion that clamps a literal too large to the largest integer
str_parse_saturating(cs) ==
    IF cs = <<>> THEN [ok |-> FALSE, val |-> 0] ELSE saturating_digits(cs, 1, 0)

\* num_str.parse::<i64>()
str_parse(cs) == IF cs = <<>> THEN [ok |-> FALSE, val |-> 0] ELSE checked_digits(cs, 1, 0)

RECURSIVE parse_expression(_)
RECURSIVE expression_loop(_, _, _)
RECURSIVE expression_loop_right(_, _, _)
RECURSIVE parse_term(_)
RECURSIVE term_loop(_, _, _)
RECURSIVE parse_factor(_)

\* the Rule::number arm: `num_str.parse().map(ASTNode::Number)
\* .map_err(|_| ParseError::InvalidNumber(num_str.to_string()))`
parse_number(num_str) ==
    Bind(str_parse(num_str), LAMBDA n :
      IF n.ok THEN ParsedOk(Number(n.val)) ELSE ParsedErr(InvalidNumber(Str(num_str))))

\* a parenthesized factor built from the first term of its expression only
parse_factor_first_term(pair) ==
    IF pair.inner = <<>> THEN ParsedErr(UnexpectedEnd("number"))
    ELSE Bind(pair.inner[1], LAMBDA inner :
           CASE inner.rule = "number" -> parse_number(inner.str)
             [] inner.rule = "identifier" -> ParsedOk(Identifier(Str(inner.str)))
             [] inner.rule = "expression" -> parse_term(inner.inner[1])
             [] OTHER -> ParsedErr(UnexpectedRule(inner.rule)))

\* parse_factor
parse_factor(pair) ==
    IF pair.inner = <<>> THEN ParsedErr(UnexpectedEnd("number"))
    ELSE Bind(pair.inner[1], LAMBDA inner :
           CASE inner.rule = "number" -> parse_number(inner.str)
             [] inner.rule = "identifier" -> ParsedOk(Identifier(Str(inner.str)))
             [] inner.rule = "expression" -> parse_expression(inner)
             [] OTHER -> ParsedErr(UnexpectedRule(inner.rule)))

\* parse_term's `while i < pairs.len()` over the pairs after the first, from
\* index i (counted from 1), folding (mul_op, factor) into current_node
term_loop(current_node, pairs, i) ==
    IF i > Len(pairs) THEN ParsedOk(current_node)
    ELSE IF i + 1 > Len(pairs) THEN ParsedErr(UnexpectedEnd("factor"))
    ELSE IF pairs[i].rule = "mul_op" /\ pairs[i].str \in {<<"*">>, <<"/">>}
    THEN Bind(parse_factor(pairs[i + 1]), LAMBDA f :
           IF ~f.ok THEN f
           ELSE IF pairs[i].str = <<"*">>
                THEN term_loop(Mul(current_node, f.node), pairs, i + 2)
                ELSE term_loop(Div(current_node, f.node), pairs, i + 2))
    ELSE ParsedErr(UnexpectedRule(pairs[i].rule))

\* a term built from its first factor only
parse_term_first_factor(pair) ==
    IF pair.inner = <<>> THEN ParsedErr(UnexpectedEnd("factor"))
    ELSE parse_factor(pair.inner[1])

\* parse_term
parse_term(pair) ==
    IF pair.inner = <<>> THEN ParsedErr(UnexpectedEnd("factor"))
    ELSE Bind(parse_factor(pair.inner[1]), LAMBDA first :
           IF first.ok THEN term_loop(first.node, Tail(pair.inner), 1) ELSE first)

\* the (add_op, term) pairs folded to the right: t1 op (t2 op (t3 ...))
expression_loop_right(current_node, pairs, i) ==
    IF i > Len(pairs) THEN ParsedOk(current_node)
    ELSE IF i + 1 > Len(pairs) THEN ParsedErr(UnexpectedEnd("term"))
    ELSE IF pairs[i].rule = "add_op" /\ pairs[i].str \in {<<"+">>, <<"-">>}
    THEN Bind(parse_term(pairs[i + 1]), LAMBDA t :
           IF ~t.ok THEN t
           ELSE Bind(expression_loop_right(t.node, pairs, i + 2), LAMBDA rest :
                  IF ~rest.ok THEN rest
                  ELSE IF pairs[i].str = <<"+">>
                       THEN ParsedOk(Add(current_node, rest.node))
                       ELSE ParsedOk(Sub(current_node, rest.node))))
    ELSE ParsedErr(UnexpectedRule(pairs[i].rule))

\* parse_expression's `while i < pairs.len()` over the pairs after the first,
\* from index i (counted from 1), folding (add_op, term) into current_node
expression_loop(current_node, pairs, i) ==
    IF i > Len(pairs) THEN ParsedOk(current_node)
    ELSE IF i + 1 > Len(pairs) THEN ParsedErr(UnexpectedEnd("term"))
    ELSE IF pairs[i].rule = "add_op" /\ pairs[i].str \in {<<"+">>, <<"-">>}
    THEN Bind(parse_term(pairs[i + 1]), LAMBDA t :
           IF ~t.ok THEN t
           ELSE IF pairs[i].str = <<"+">>
                THEN expression_loop(Add(current_node, t.node), pairs, i + 2)
                ELSE expression_loop(Sub(current_node, t.node), pairs, i + 2))
    ELSE ParsedErr(UnexpectedRule(pairs[i].rule))

\* parse_expression
parse_expression(pair) ==
    IF pair.inner = <<>> THEN ParsedErr(UnexpectedEnd("term"))
    ELSE Bind(parse_term(pair.inner[1]), LAMBDA first :
           IF first.ok THEN expression_loop(first.node, Tail(pair.inner), 1) ELSE first)

\* parse_assignment
parse_assignment(pair) ==
    IF Len(pair.inner) < 1 THEN ParsedErr(UnexpectedEnd("identifier"))
    ELSE IF Len(pair.inner) < 2 THEN ParsedErr(UnexpectedEnd("expression"))
    ELSE Bind(parse_expression(pair.inner[2]), LAMBDA value :
           IF value.ok
           THEN ParsedOk(Assignment(Str(pair.inner[1].str), value.node))
           ELSE value)

\* parse_statement
parse_statement(pair) ==
    IF pair.inner = <<>> THEN ParsedErr(UnexpectedEnd("statement"))
    ELSE Bind(pair.inner[1], LAMBDA stmt :
           CASE stmt.rule = "assignment" -> parse_assignment(stmt)
             [] stmt.rule = "expression" -> parse_expression(stmt)
             [] OTHER -> ParsedErr(UnexpectedRule(stmt.rule)))

RECURSIVE push_statements_front(_, _, _)
\* the loop with each node put in front of the ones before it: `nodes.insert(0, ...)`
push_statements_front(pairs, i, acc) ==
    IF i > Len(pairs) THEN [ok |-> TRUE, nodes |-> acc, err |-> NoParseError]
    ELSE IF pairs[i].rule = "statement"
         THEN Bind(parse_statement(pairs[i]), LAMBDA st :
                IF st.ok THEN push_statements_front(pairs, i + 1, <<st.node>> \o acc)
                ELSE [ok |-> FALSE, nodes |-> <<>>, err |-> st.err])
         ELSE push_statements_front(pairs, i + 1, acc)

RECURSIVE push_statements(_, _, _)
\* parse_program's loop over the pairs of the program from index i:
\* `nodes.push(parse_statement(inner_pair)?)` for every statement pair
push_statements(pairs, i, acc) ==
    IF i > Len(pairs) THEN [ok |-> TRUE, nodes |-> acc, err |-> NoParseError]
    ELSE IF pairs[i].rule = "statement"
         THEN Bind(parse_statement(pairs[i]), LAMBDA st :
                IF st.ok THEN push_statements(pairs, i + 1, Append(acc, st.node))
                ELSE [ok |-> FALSE, nodes |-> <<>>, err |-> st.err])
         ELSE push_statements(pairs, i + 1, acc)

\* parse_program
parse_program(input) ==
    Bind(pest_program(input), LAMBDA pairs :
      IF ~pairs.ok THEN [ok |-> FALSE, nodes |-> <<>>, err |-> PestError]
      ELSE push_statements(pairs.pair.inner, 1, <<>>))

\* ------------------------------------------------------------------ inputs
\* the literals and operands of the hand-built trees
Lits == {0, 1, MaxInt}
Operands == {Number(n) : n \in Lits} \cup {Identifier(v) : v \in Names}
Arith == {Bin(op, a, b) : op \in BinKinds, a \in Operands, b \in Operands}
\* statements as parse_statement builds them: an expression, or an
\* Assignment at the root only
FlatStmts ==
    Operands \cup {Assignment(v, e) : v \in Names, e \in Operands}
    \cup {Assignment("x", e) : e \in Arith}
\* trees only a caller can build: an Assignment inside an operand or inside
\* an assignment's value
Inner ==
    {Assignment(v, Number(1)) : v \in Names} \cup {Assignment("x", Identifier("y"))}
Outer == {Number(0), Identifier("x"), Identifier("y")}
NestedStmts ==
    {Bin(op, a, b) : op \in BinKinds, a \in Inner, b \in Outer}
    \cup {Bin(op, a, b) : op \in BinKinds, a \in Outer, b \in Inner}
    \cup {Assignment(v, Bin("Div", a, b)) : v \in Names, a \in Inner, b \in Outer}
\* the statements of the longer slices: a plain assignment, an assignment
\* that reads x and divides by it, and an expression that overwrites x in
\* its left operand before it reads y
ChainStmts ==
    { Assignment("x", Number(1)),
      Assignment("y", Div(Number(1), Identifier("x"))),
      Sub(Assignment("x", Sub(Identifier("x"), Number(1))), Identifier("y")) }

SeqsOver(S, lo, hi) == UNION {[1..n -> S] : n \in lo..hi}

Programs ==
    {<<>>} \cup {<<s>> : s \in FlatStmts \cup NestedStmts}
    \cup SeqsOver(ChainStmts, 2, MaxStmts)

\* ------------------------------------------------------------------ state
VARIABLES
    overflow_checks,  \* the build profile: TRUE panics on overflow, FALSE wraps
    variables,        \* Interpreter.variables
    pc,               \* "idle" | "loop" | "returned" | "aborted"
    nodes,            \* the slice handed to eval
    idx,              \* how many elements of nodes the for loop has taken
    result,           \* "none" | "Ok" | "Err" | "Panic"
    err,              \* the EvalError returned, NoError otherwise
    env0,             \* variables when the current eval call began
    before,           \* variables when the last statement began
    writes,           \* the inserts made by the current eval call, in order
    fresh,            \* the current call is the first since Interpreter::new
    source,           \* the text handed to parse_program
    parsed            \* what parse_program returned for it, NotParsed before

vars == <<overflow_checks, variables, pc, nodes, idx, result, err, env0, before,
          writes, fresh, source, parsed>>

NotParsed == [ok |-> FALSE, nodes |-> <<>>, err |-> NoParseError]

\* Interpreter::new()
Init ==
    /\ overflow_checks \in BOOLEAN
    /\ variables = EmptyMap
    /\ pc = "idle"
    /\ nodes = <<>>
    /\ idx = 0
    /\ result = "none"
    /\ err = NoError
    /\ env0 = EmptyMap
    /\ before = EmptyMap
    /\ writes = <<>>
    /\ fresh = TRUE
    /\ source = <<>>
    /\ parsed = NotParsed

\* a caller drops the interpreter and constructs a new one
InterpreterNew ==
    /\ pc = "returned"
    /\ variables' = EmptyMap
    /\ pc' = "idle"
    /\ nodes' = <<>>
    /\ idx' = 0
    /\ result' = "none"
    /\ err' = NoError
    /\ env0' = EmptyMap
    /\ before' = EmptyMap
    /\ writes' = <<>>
    /\ fresh' = TRUE
    /\ UNCHANGED <<overflow_checks, source, parsed>>

\* a caller has consumed the Result and the slice and keeps the interpreter,
\* whose variables it can read, for a further eval
KeepInterpreter ==
    /\ pc = "returned"
    /\ pc' = "idle"
    /\ nodes' = <<>>
    /\ idx' = 0
    /\ result' = "none"
    /\ err' = NoError
    /\ env0' = variables
    /\ before' = variables
    /\ writes' = <<>>
    /\ fresh' = FALSE
    /\ UNCHANGED <<overflow_checks, variables, source, parsed>>

\* entry of Interpreter::eval(&mut self, nodes)
Call(ns) ==
    /\ pc = "idle"
    /\ pc' = "loop"
    /\ nodes' = ns
    /\ idx' = 0
    /\ result' = "none"
    /\ err' = NoError
    /\ env0' = variables
    /\ before' = variables
    /\ writes' = <<>>
    /\ UNCHANGED <<overflow_checks, variables, fresh, source, parsed>>

EvalCall == \E ns \in Programs : Call(ns)

\* the loop body with the statement's error dropped: `let _ = self.eval_node(node);`
EvalIterIgnoreErr ==
    /\ pc = "loop"
    /\ idx < Len(nodes)
    /\ LET r == eval_node(variables, writes, nodes[idx + 1], overflow_checks)
       IN  /\ variables' = r.env
           /\ writes' = r.writes
           /\ before' = variables
           /\ idx' = idx + 1
           /\ IF r.err = Panic
              THEN pc' = "aborted" /\ result' = "Panic" /\ err' = NoError
              ELSE pc' = "loop" /\ result' = "none" /\ err' = NoError
    /\ UNCHANGED <<overflow_checks, nodes, env0, fresh, source, parsed>>

\* one iteration of `for node in nodes { self.eval_node(node)?; }`
EvalIter ==
    /\ pc = "loop"
    /\ idx < Len(nodes)
    /\ LET r == eval_node(variables, writes, nodes[idx + 1], overflow_checks)
       IN  /\ variables' = r.env
           /\ writes' = r.writes
           /\ before' = variables
           /\ idx' = idx + 1
           /\ IF r.err = NoError
              THEN pc' = "loop" /\ result' = "none" /\ err' = NoError
              ELSE IF r.err = Panic
                   THEN pc' = "aborted" /\ result' = "Panic" /\ err' = NoError
                   ELSE pc' = "returned" /\ result' = "Err" /\ err' = r.err
    /\ UNCHANGED <<overflow_checks, nodes, env0, fresh, source, parsed>>

\* the loop is exhausted: `Ok(())`
EvalReturn ==
    /\ pc = "loop"
    /\ idx = Len(nodes)
    /\ pc' = "returned"
    /\ result' = "Ok"
    /\ UNCHANGED <<overflow_checks, variables, nodes, idx, err, env0, before, writes,
                   fresh, source, parsed>>

Next == InterpreterNew \/ KeepInterpreter \/ EvalCall \/ EvalIter \/ EvalReturn

Spec == Init /\ [][Next]_vars

TypeOK ==
    /\ DOMAIN variables \subseteq Names
    /\ \A n \in DOMAIN variables : variables[n] \in I64
    /\ pc \in {"source", "rejected", "idle", "loop", "returned", "aborted"}
    /\ idx \in 0..Len(nodes)

\* ------------------------------------------------------------------ source texts
RECURSIVE Join(_, _)
\* the tokens of ts, in order, with sp between neighbours
Join(ts, sp) ==
    IF ts = <<>> THEN <<>>
    ELSE IF Len(ts) = 1 THEN ts[1]
    ELSE ts[1] \o sp \o Join(Tail(ts), sp)

Spacings == {<<>>, <<" ">>}
NumToks == {<<"1">>, <<"2">>, <<"3">>}
FactorToks == NumToks \cup {<<"x">>}
AddOps == {<<"+">>, <<"-">>}
MulOps == {<<"*">>, <<"/">>}
OpToks == AddOps \cup MulOps

\* a o1 b o2 c ;
ThreeOperands(F) ==
    {<<a, o1, b, o2, c, <<";">> >> : a \in F, b \in F, c \in F, o1 \in OpToks, o2 \in OpToks}
\* ( a o1 b ) o2 c ;
ParenLeft(F) ==
    {<< <<"(">>, a, o1, b, <<")">>, o2, c, <<";">> >> :
        a \in F, b \in F, c \in F, o1 \in OpToks, o2 \in OpToks}
\* a o1 ( b o2 c ) ;
ParenRight(F) ==
    {<<a, o1, <<"(">>, b, o2, c, <<")">>, <<";">> >> :
        a \in F, b \in F, c \in F, o1 \in OpToks, o2 \in OpToks}
\* a o1 b o2 c o3 d ;
FourOperands(F) ==
    {<<a, o1, b, o2, c, o3, d, <<";">> >> :
        a \in F, b \in F, c \in F, d \in F, o1 \in OpToks, o2 \in OpToks, o3 \in OpToks}
\* x = ... ;
Assigning(T) == {<< <<"x">>, <<"=">> >> \o t : t \in T}

\* further texts: the empty one, several statements, texts outside the
\* grammar, literals too large for the integer type
OtherTexts ==
    { <<>>,
      <<" ">>,
      <<"x", "=", "1", ";", "y", "=", "2", ";">>,
      <<"\n", " ", "x", " ", "=", " ", "1", ";", "\n", " ", "y", " ", "=", " ", "x", " ",
        "+", " ", "1", ";", "\n">>,
      <<"x", "=", "1", ";", "x", "=", "x", "+", "1", ";", "y", "=", "x", ";">>,
      <<"y", "+", "1", ";">>,
      <<"z", "=", "b", "+", "1", ";">>,
      <<"x", "=", "1", "/", "0", ";">>,
      <<"x", "=", "1", ";", "x", "=", "2", "/", "0", ";", "y", "=", "1", ";">>,
      <<"x", "=", "1", ";", "y", "+", "1", ";", "x", "=", "2", ";">>,
      <<"4", "2", ";">>,
      <<"x", ";">>,
      <<"a", "b", "=", "1", "0", ";">>,
      <<"(", "(", "1", ")", ")", ";">>,
      <<"(", "x", "=", "1", ")", ";">>,
      <<"x", "=", "y", "=", "1", ";">>,
      <<"-", "1", ";">>,
      <<"1", "+", ";">>,
      <<"(", "1", ";">>,
      <<"x", "=", ";">>,
      <<"x", "=", "1">>,
      <<"x", "=", "1", ";", "y", "=", "2">>,
      <<"9", "9", ";">>,
      <<"x", "=", "1", ";", "y", "=", "9", "9", ";">>,
      <<"x", "=", "1", ";", "y", "=", "9", "9", ";", "1", "+", ";">>,
      <<"0", "0", "1", ";">> }

\* literals around the largest integer, with leading zeros, of several digits
LitToks == {<<"0">>, <<"3">>, <<"4">>, <<"7">>, <<"8">>, <<"0", "3">>, <<"1", "0">>,
            <<"0", "0", "4">>}
\* a statement that is a literal, or assigns one
LitStmts == {l \o <<";">> : l \in LitToks} \cup {<<"x", "=">> \o l \o <<";">> : l \in LitToks}
\* one or two such statements
LiteralTexts == LitStmts \cup {a \o b : a \in LitStmts, b \in LitStmts}

Sources ==
    {Join(t, sp) :
        t \in ThreeOperands(FactorToks) \cup Assigning(ThreeOperands(NumToks))
              \cup ParenLeft(NumToks) \cup Assigning(ParenLeft(NumToks))
              \cup ParenRight(NumToks) \cup FourOperands({<<"1">>, <<"2">>}),
        sp \in Spacings}
    \cup LiteralTexts
    \cup OtherTexts

\* ------------------------------------------------------------------ parse, then evaluate
\* a source text, and a new interpreter
InitParse ==
    /\ overflow_checks \in BOOLEAN
    /\ source \in Sources
    /\ parsed = NotParsed
    /\ variables = EmptyMap
    /\ pc = "source"
    /\ nodes = <<>>
    /\ idx = 0
    /\ result = "none"
    /\ err = NoError
    /\ env0 = EmptyMap
    /\ before = EmptyMap
    /\ writes = <<>>
    /\ fresh = TRUE

\* `let ast = parse_program(&content)...?; let mut interpreter = Interpreter::new();`
ParseProgram ==
    /\ pc = "source"
    /\ parsed' = parse_program(source)
    /\ pc' = IF parsed'.ok THEN "idle" ELSE "rejected"
    /\ UNCHANGED <<overflow_checks, variables, nodes, idx, result, err, env0, before,
                   writes, fresh, source>>

\* `interpreter.eval(&ast)`
EvalParsed ==
    /\ parsed.ok
    /\ Call(parsed.nodes)

NextParse == ParseProgram \/ EvalParsed \/ EvalIter \/ EvalReturn

SpecParse == InitParse /\ [][NextParse]_vars

\* ------------------------------------------------------------------ vocabulary of the properties
RECURSIVE AssignedNames(_)
\* the names of the Assignment nodes of a tree
AssignedNames(node) ==
    CASE node.kind = "Assignment" -> {node.name} \cup AssignedNames(node.value)
      [] node.kind \in BinKinds -> AssignedNames(node.l) \cup AssignedNames(node.r)
      [] OTHER -> {}

\* the names of the Assignment nodes strictly below the root of a statement
InnerAssigned(node) ==
    IF node.kind = "Assignment" THEN AssignedNames(node.value) ELSE AssignedNames(node)

RECURSIVE LeftmostLeaf(_)
\* the leaf eval_node reaches first
LeftmostLeaf(node) ==
    CASE node.kind = "Assignment" -> LeftmostLeaf(node.value)
      [] node.kind \in BinKinds -> LeftmostLeaf(node.l)
      [] OTHER -> node

RECURSIVE IdentifiersOf(_)
IdentifiersOf(node) ==
    CASE node.kind = "Identifier" -> {node.name}
      [] node.kind = "Assignment" -> IdentifiersOf(node.value)
      [] node.kind \in BinKinds -> IdentifiersOf(node.l) \cup IdentifiersOf(node.r)
      [] OTHER -> {}

\* the binding of a name: <<v>> when bound to v, <<>> when unbound
Binding(env, n) == IF n \in DOMAIN env THEN <<env[n]>> ELSE <<>>

\* a statement has been evaluated by the current call, and which
Ran == idx >= 1 /\ pc \in {"loop", "returned", "aborted"}
LastStmt == nodes[idx]

RECURSIVE EnvAfter(_, _, _, _)
\* the environment after the first n statements of ns, each evaluated in turn
EnvAfter(env, ns, n, oc) ==
    IF n = 0 THEN env ELSE eval_node(EnvAfter(env, ns, n - 1, oc), <<>>, ns[n], oc).env

\* the index of the first statement of ns that does not evaluate to a value, 0 if none
FirstFailure(env, ns, oc) ==
    LET F == {j \in 1..Len(ns) :
                eval_node(EnvAfter(env, ns, j - 1, oc), <<>>, ns[j], oc).err # NoError}
    IN  IF F = {} THEN 0 ELSE CHOOSE j \in F : \A i \in F : j <= i

\* ------------------------------------------------------------------ C1
\* C1 as stated: when eval returns an error, the environment is exactly the
\* one produced by the statements strictly before the failing one.
C1_AsStated ==
    result = "Err" => variables = EnvAfter(env0, nodes, idx - 1, overflow_checks)

\* C1 (amended): eval takes no statement after the first failing one, and when
\* it returns the error the environment is the one produced by the statements
\* strictly before the failing one, changed at most at the names assigned by
\* Assignment nodes nested below the root of the failing statement; with no
\* such nested Assignment it is exactly that environment.
C1_StopsAtFirstFailure ==
    LET k == FirstFailure(env0, nodes, overflow_checks)
        prior == EnvAfter(env0, nodes, k - 1, overflow_checks)
    IN  (pc # "idle" /\ k > 0) =>
          /\ idx <= k
          /\ result # "Ok"
          /\ result = "Err" =>
               /\ idx = k
               /\ \A n \in Names \ InnerAssigned(nodes[k]) :
                     Binding(variables, n) = Binding(prior, n)
               /\ InnerAssigned(nodes[k]) = {} => variables = prior

\* an error returned by the second or a later statement, which has no nested
\* Assignment, after earlier statements changed the environment and before a
\* statement that assigns
C1_Witness ==
    /\ result = "Err"
    /\ idx >= 2
    /\ idx < Len(nodes)
    /\ InnerAssigned(nodes[idx]) = {}
    /\ variables # env0
    /\ AssignedNames(nodes[idx + 1]) # {}

\* ------------------------------------------------------------------ C2
\* C2: eval ends by returning Ok(()) or Err(EvalError), never by a panic.
C2_EvalReturnsResult == result # "Panic"

\* ------------------------------------------------------------------ C3
\* the statement is a Div, or an Assignment whose value is a Div
IsDivStmt(s) == s.kind = "Div" \/ (s.kind = "Assignment" /\ s.value.kind = "Div")
DivOf(s) == IF s.kind = "Div" THEN s ELSE s.value

\* both operands of the Div d evaluate, from env, and the right one to 0
RightIsZero(env, d, oc) ==
    LET a == eval_node(env, <<>>, d.l, oc)
    IN  /\ a.err = NoError
        /\ LET b == eval_node(a.env, <<>>, d.r, oc)
           IN  b.err = NoError /\ b.val = 0

\* C3 as stated: a Div whose right operand evaluates to 0 fails with
\* DivisionByZero, and when it is the value of an assignment the assigned
\* name keeps the binding, or the absence of one, it had before the statement.
C3_AsStated ==
    (Ran /\ IsDivStmt(LastStmt) /\ RightIsZero(before, DivOf(LastStmt), overflow_checks)) =>
        /\ result = "Err"
        /\ err = DivisionByZero
        /\ LastStmt.kind = "Assignment" =>
             Binding(variables, LastStmt.name) = Binding(before, LastStmt.name)

\* C3 (amended): a Div whose right operand evaluates to 0 fails with
\* DivisionByZero (never a panic of the native division), whatever the left
\* operand; when it is the value of an assignment the assigned name keeps the
\* binding, or the absence of one, it had before the statement, unless an
\* Assignment to that same name is nested inside the value.
C3_DivisionByZero ==
    (Ran /\ IsDivStmt(LastStmt) /\ RightIsZero(before, DivOf(LastStmt), overflow_checks)) =>
        /\ result = "Err"
        /\ err = DivisionByZero
        /\ (LastStmt.kind = "Assignment" /\ LastStmt.name \notin InnerAssigned(LastStmt)) =>
             Binding(variables, LastStmt.name) = Binding(before, LastStmt.name)

\* `x = a / b;` with b evaluating to 0 and a not, on an environment that binds x
C3_Witness ==
    /\ Ran
    /\ LastStmt.kind = "Assignment"
    /\ LastStmt.value.kind = "Div"
    /\ InnerAssigned(LastStmt) = {}
    /\ RightIsZero(before, LastStmt.value, overflow_checks)
    /\ eval_node(before, <<>>, LastStmt.value.l, overflow_checks).val # 0
    /\ LastStmt.name \in DOMAIN before
    /\ err = DivisionByZero

\* ------------------------------------------------------------------ C4
\* C4 as stated: a lookup of an unbound name fails with UndefinedVariable and
\* leaves the environment as it was before the statement.
C4_AsStated ==
    (result = "Err" /\ err.kind = "UndefinedVariable") => variables = before

\* C4 (amended): a statement whose first lookup is of an unbound name fails
\* with UndefinedVariable of exactly that name and changes nothing; and
\* whenever eval returns UndefinedVariable(name), name is an Identifier of the
\* failing statement with no binding (no default was substituted), and the
\* environment differs from the one before the statement at most at the names
\* assigned by Assignment nodes nested below the statement's root.
C4_UndefinedVariable ==
    /\ (Ran /\ LeftmostLeaf(LastStmt).kind = "Identifier"
            /\ LeftmostLeaf(LastStmt).name \notin DOMAIN before) =>
          /\ result = "Err"
          /\ err = UndefinedVariable(LeftmostLeaf(LastStmt).name)
          /\ variables = before
    /\ (result = "Err" /\ err.kind = "UndefinedVariable") =>
          /\ err.name \in IdentifiersOf(LastStmt)
          /\ err.name \notin DOMAIN variables
          /\ \A n \in Names \ InnerAssigned(LastStmt) :
                Binding(variables, n) = Binding(before, n)
          /\ InnerAssigned(LastStmt) = {} => variables = before

\* `x = y ...;` with y unbound, on an environment that is not empty
C4_Witness ==
    /\ result = "Err"
    /\ err.kind = "UndefinedVariable"
    /\ LastStmt.kind = "Assignment"
    /\ LastStmt.value.kind \in BinKinds
    /\ LastStmt.name # err.name
    /\ before # EmptyMap
    /\ variables = before

\* ------------------------------------------------------------------ C5
\* C5: after Ok(()) on a fresh interpreter the keys are exactly the names the
\* program assigns, each bound to the value of the last insert made for it.
C5_FinalEnvironment ==
    (fresh /\ result = "Ok") =>
        /\ DOMAIN variables = UNION {AssignedNames(nodes[i]) : i \in 1..Len(nodes)}
        /\ \A n \in DOMAIN variables :
              \E i \in 1..Len(writes) :
                 /\ writes[i] = <<n, variables[n]>>
                 /\ \A j \in (i + 1)..Len(writes) : writes[j][1] # n

\* a fresh run that overwrote a binding with another value and in which a
\* later statement read a name assigned by an earlier one
C5_Witness ==
    /\ fresh
    /\ result = "Ok"
    /\ \E i, j \in 1..Len(writes) :
          i < j /\ writes[i][1] = writes[j][1] /\ writes[i][2] # writes[j][2]
    /\ \E k \in 2..Len(nodes) :
          IdentifiersOf(nodes[k]) \cap UNION {AssignedNames(nodes[i]) : i \in 1..(k - 1)} # {}

\* ------------------------------------------------------------------ shapes of source texts
\* the characters of a text that are not whitespace
Toks(src) == SelectSeq(src, LAMBDA c : c \notin Whitespace)

\* a one-character factor: a letter, or a digit the integer type holds
IsFactorTok(c) == c \in Lower \/ (c \in Digits /\ DigitVal(c) <= MaxInt)
FactorNode(c) == IF c \in Digits THEN Number(DigitVal(c)) ELSE Identifier(c)
IsNumTok(c) == c \in Digits /\ DigitVal(c) <= MaxInt

\* the node kind of an operator character
OpNode(o, l, r) ==
    CASE o = "+" -> Add(l, r) [] o = "-" -> Sub(l, r)
      [] o = "*" -> Mul(l, r) [] o = "/" -> Div(l, r)

\* the integer an operator denotes, and whether the integer type holds it
Ap(o, l, r) ==
    CASE o = "+" -> l + r [] o = "-" -> l - r
      [] o = "*" -> l * r [] o = "/" -> TruncDiv(l, r)
Defined(o, l, r) == (o = "/" => r # 0) /\ Ap(o, l, r) \in I64

\* f1 o1 f2 ... on fn: one-character factors separated by operators
IsFlat(t) ==
    /\ Len(t) % 2 = 1
    /\ \A i \in 1..Len(t) :
          IF i % 2 = 1 THEN IsFactorTok(t[i]) ELSE t[i] \in {"+", "-", "*", "/"}

\* the position of the last + or - of a flat chain, 0 when it has none
LastAddOp(t) ==
    LET P == {i \in 1..Len(t) : t[i] \in {"+", "-"}}
    IN  IF P = {} THEN 0 ELSE CHOOSE i \in P : \A j \in P : j <= i

RECURSIVE LeftFold(_)
\* ((f1 o1 f2) o2 f3) ... on fn, read off from the last operator inwards
LeftFold(t) ==
    IF Len(t) = 1 THEN FactorNode(t[1])
    ELSE OpNode(t[Len(t) - 1], LeftFold(SubSeq(t, 1, Len(t) - 2)), FactorNode(t[Len(t)]))

RECURSIVE ChainFold(_)
\* ((t1 o1 t2) o2 t3) ... on tn for the terms t1 .. tn of a flat chain, a
\* term being the factors between two neighbouring + or -
ChainFold(t) ==
    IF LastAddOp(t) = 0 THEN LeftFold(t)
    ELSE OpNode(t[LastAddOp(t)],
                ChainFold(SubSeq(t, 1, LastAddOp(t) - 1)),
                LeftFold(SubSeq(t, LastAddOp(t) + 1, Len(t))))

\* the text is "x = <body> ;" or "<body> ;"
IsAssignText(t) == Len(t) >= 4 /\ t[1] \in Lower /\ t[2] = "=" /\ t[Len(t)] = ";"
IsExprText(t) == Len(t) >= 2 /\ t[Len(t)] = ";" /\ ~IsAssignText(t)
Body(t) == IF IsAssignText(t) THEN SubSeq(t, 3, Len(t) - 1) ELSE SubSeq(t, 1, Len(t) - 1)
\* the one statement of such a text, given the node of its body
StmtOf(t, node) == IF IsAssignText(t) THEN Assignment(t[1], node) ELSE node

\* parse_program has returned
Parsed == pc # "source"

\* ------------------------------------------------------------------ C6
\* C6: for "a op1 b op2 c;" with op1 in {+,-}, op2 in {*,/} and factors a, b,
\* c, parse_program returns op1(a, op2(b, c)) and never op2(op1(a, b), c).
C6_MulDivBindTighter ==
    LET t == Toks(source)
    IN  (/\ Parsed
         /\ Len(t) = 6 /\ t[6] = ";"
         /\ IsFactorTok(t[1]) /\ IsFactorTok(t[3]) /\ IsFactorTok(t[5])
         /\ t[2] \in {"+", "-"} /\ t[4] \in {"*", "/"})
        => /\ parsed.ok
           /\ parsed.nodes =
                <<OpNode(t[2], FactorNode(t[1]), OpNode(t[4], FactorNode(t[3]), FactorNode(t[5])))>>
           /\ parsed.nodes #
                <<OpNode(t[4], OpNode(t[2], FactorNode(t[1]), FactorNode(t[3])), FactorNode(t[5]))>>

\* "2 + 3 * 1;" has been parsed to Add(2, Mul(3, 1))
C6_Witness ==
    /\ Parsed
    /\ Toks(source) = <<"2", "+", "3", "*", "1", ";">>
    /\ parsed.ok
    /\ parsed.nodes = <<Add(Number(2), Mul(Number(3), Number(1)))>>

\* ------------------------------------------------------------------ C7
\* C7: a chain of terms joined by + and -, and a chain of factors joined by
\* * and /, parse to the left-nested tree, operands in source order and each
\* operator as its own node kind; and "x = a o1 b o2 c;" with o1, o2 in {+,-}
\* binds x to (a o1 b) o2 c whenever the integer type holds both results.
C7_LeftAssociative ==
    LET t == Toks(source)
    IN  /\ (Parsed /\ (IsAssignText(t) \/ IsExprText(t)) /\ IsFlat(Body(t)) /\ Len(Body(t)) >= 3)
            => /\ parsed.ok
               /\ parsed.nodes = <<StmtOf(t, ChainFold(Body(t)))>>
        /\ (/\ pc = "returned"
            /\ IsAssignText(t) /\ Len(t) = 8
            /\ IsNumTok(t[3]) /\ IsNumTok(t[5]) /\ IsNumTok(t[7])
            /\ t[4] \in {"+", "-"} /\ t[6] \in {"+", "-"}
            /\ Defined(t[4], DigitVal(t[3]), DigitVal(t[5]))
            /\ Defined(t[6], Ap(t[4], DigitVal(t[3]), DigitVal(t[5])), DigitVal(t[7])))
            => /\ result = "Ok"
               /\ variables =
                    Insert(EmptyMap, t[1],
                           Ap(t[6], Ap(t[4], DigitVal(t[3]), DigitVal(t[5])), DigitVal(t[7])))

\* "x = 3 - 2 - 1;" has been parsed to x = (3 - 2) - 1 and has bound x to 0, not to 2
C7_Witness ==
    /\ pc = "returned"
    /\ Toks(source) = <<"x", "=", "3", "-", "2", "-", "1", ";">>
    /\ parsed.nodes = <<Assignment("x", Sub(Sub(Number(3), Number(2)), Number(1)))>>
    /\ result = "Ok"
    /\ variables = Insert(EmptyMap, "x", 0)

\* a chain of four operands whose terms are products has been parsed
C7_WitnessTerms ==
    /\ Parsed
    /\ Toks(source) = <<"1", "-", "2", "*", "1", "/", "2", ";">>
    /\ parsed.nodes = <<Sub(Number(1), Div(Mul(Number(2), Number(1)), Number(2)))>>

\* ------------------------------------------------------------------ C8
\* C8: a parenthesized expression is one operand of the enclosing operator
\* and leaves no node of its own: "(a o1 b) o2 c;" parses to o2(o1(a, b), c),
\* "a o1 (b o2 c);" to o1(a, o2(b, c)), and "x = (a o1 b) o2 c;" binds x to
\* (a o1 b) o2 c whenever the integer type holds both results.
C8_Parenthesized ==
    LET t == Toks(source)
        b == Body(t)
    IN  /\ (/\ Parsed /\ (IsAssignText(t) \/ IsExprText(t))
            /\ Len(b) = 7 /\ b[1] = "(" /\ b[5] = ")"
            /\ IsFlat(<<b[2], b[3], b[4], b[6], b[7]>>))
            => /\ parsed.ok
               /\ parsed.nodes =
                    <<StmtOf(t, OpNode(b[6], OpNode(b[3], FactorNode(b[2]), FactorNode(b[4])),
                                       FactorNode(b[7])))>>
        /\ (/\ Parsed /\ (IsAssignText(t) \/ IsExprText(t))
            /\ Len(b) = 7 /\ b[3] = "(" /\ b[7] = ")"
            /\ IsFlat(<<b[1], b[2], b[4], b[5], b[6]>>))
            => /\ parsed.ok
               /\ parsed.nodes =
                    <<StmtOf(t, OpNode(b[2], FactorNode(b[1]),
                                       OpNode(b[5], FactorNode(b[4]), FactorNode(b[6]))))>>
        /\ (/\ pc = "returned"
            /\ IsAssignText(t)
            /\ Len(b) = 7 /\ b[1] = "(" /\ b[5] = ")"
            /\ IsNumTok(b[2]) /\ IsNumTok(b[4]) /\ IsNumTok(b[7])
            /\ b[3] \in {"+", "-", "*", "/"} /\ b[6] \in {"+", "-", "*", "/"}
            /\ Defined(b[3], DigitVal(b[2]), DigitVal(b[4]))
            /\ Defined(b[6], Ap(b[3], DigitVal(b[2]), DigitVal(b[4])), DigitVal(b[7])))
            => /\ result = "Ok"
               /\ variables =
                    Insert(EmptyMap, t[1],
                           Ap(b[6], Ap(b[3], DigitVal(b[2]), DigitVal(b[4])), DigitVal(b[7])))

\* "x = (3 - 2) * 3;" has been parsed to x = Mul(Sub(3, 2), 3) and has bound x to 3
C8_Witness ==
    /\ pc = "returned"
    /\ Toks(source) = <<"x", "=", "(", "3", "-", "2", ")", "*", "3", ";">>
    /\ parsed.nodes = <<Assignment("x", Mul(Sub(Number(3), Number(2)), Number(3)))>>
    /\ result = "Ok"
    /\ variables = Insert(EmptyMap, "x", 3)

\* ------------------------------------------------------------------ C9
\* the binary node of a statement: the statement, or an Assignment's value
IsBinStmt(s) == s.kind \in BinKinds \/ (s.kind = "Assignment" /\ s.value.kind \in BinKinds)
BinOf(s) == IF s.kind \in BinKinds THEN s ELSE s.value

\* C9: the left operand is evaluated completely before the right one starts.
\* A right operand that reads a name the left operand assigned finds it
\* bound, also when it was unbound before the statement; and when the left
\* operand fails, no Assignment nested in the right operand takes effect.
C9_LeftBeforeRight ==
    (Ran /\ IsBinStmt(LastStmt)) =>
        LET b == BinOf(LastStmt)
            a == eval_node(before, <<>>, b.l, overflow_checks)
        IN  /\ (a.err = NoError /\ b.r.kind = "Identifier"
                  /\ b.r.name \in AssignedNames(b.l)) =>
                 ~(result = "Err" /\ err = UndefinedVariable(b.r.name))
            /\ a.err # NoError =>
                 /\ result # "Ok"
                 /\ pc # "loop"
                 /\ \A n \in AssignedNames(b.r) \ AssignedNames(b.l) :
                       Binding(variables, n) = Binding(before, n)

\* the right operand read a name that only the left operand's nested
\* Assignment bound
C9_Witness ==
    /\ Ran
    /\ IsBinStmt(LastStmt)
    /\ BinOf(LastStmt).r.kind = "Identifier"
    /\ BinOf(LastStmt).r.name \in AssignedNames(BinOf(LastStmt).l)
    /\ BinOf(LastStmt).r.name \notin DOMAIN before
    /\ pc = "loop"
    /\ BinOf(LastStmt).r.name \in DOMAIN variables

\* the left operand failed and the right operand holds an Assignment to a
\* name that is still unbound
C9_WitnessLeftFails ==
    /\ Ran
    /\ IsBinStmt(LastStmt)
    /\ BinOf(LastStmt).l.kind = "Identifier"
    /\ BinOf(LastStmt).r.kind = "Assignment"
    /\ result = "Err"
    /\ err = UndefinedVariable(BinOf(LastStmt).l.name)
    /\ BinOf(LastStmt).r.name \notin DOMAIN variables

\* ------------------------------------------------------------------ C10
\* C10: `x = a / b;` with b not 0 binds x to the quotient q rounded toward
\* zero: a = q * b + rem with |rem| < |b| and rem zero or of the sign of a.
C10_TruncatesTowardZero ==
    (Ran /\ LastStmt.kind = "Assignment" /\ LastStmt.value.kind = "Div") =>
        LET a == eval_node(before, <<>>, LastStmt.value.l, overflow_checks)
            b == eval_node(a.env, <<>>, LastStmt.value.r, overflow_checks)
        IN  (a.err = NoError /\ b.err = NoError /\ b.val # 0
               /\ ~(a.val = MinInt /\ b.val = 0 - 1)) =>
              /\ result \notin {"Err", "Panic"}
              /\ LastStmt.name \in DOMAIN variables
              /\ LET q == variables[LastStmt.name]
                     rem == a.val - q * b.val
                 IN  /\ Abs(rem) < Abs(b.val)
                     /\ rem = 0 \/ ((rem < 0) = (a.val < 0))

\* a negative dividend, a positive divisor and a remainder: the truncated
\* and the floored quotient differ
C10_Witness ==
    /\ Ran
    /\ LastStmt.kind = "Assignment"
    /\ LastStmt.value.kind = "Div"
    /\ pc = "loop"
    /\ LET a == eval_node(before, <<>>, LastStmt.value.l, overflow_checks)
           b == eval_node(a.env, <<>>, LastStmt.value.r, overflow_checks)
       IN  /\ a.err = NoError /\ b.err = NoError
           /\ a.val < 0 /\ b.val > 1
           /\ a.val # variables[LastStmt.name] * b.val

\* the same with a positive dividend and a negative divisor
C10_WitnessNegativeDivisor ==
    /\ Ran
    /\ LastStmt.kind = "Assignment"
    /\ LastStmt.value.kind = "Div"
    /\ pc = "loop"
    /\ LET a == eval_node(before, <<>>, LastStmt.value.l, overflow_checks)
           b == eval_node(a.env, <<>>, LastStmt.value.r, overflow_checks)
       IN  /\ a.err = NoError /\ b.err = NoError
           /\ a.val > 0 /\ b.val < 0 - 1
           /\ a.val # variables[LastStmt.name] * b.val

\* ------------------------------------------------------------------ C11
\* the position of the first ";" of a text, 0 when it has none
FirstSemi(cs) ==
    LET P == {i \in 1..Len(cs) : cs[i] = ";"}
    IN  IF P = {} THEN 0 ELSE CHOOSE i \in P : \A j \in P : i <= j

RECURSIVE Split(_)
\* the pieces of a text that end at its ";" characters, without the ";"
Split(cs) ==
    IF FirstSemi(cs) = 0 THEN <<>>
    ELSE <<SubSeq(cs, 1, FirstSemi(cs) - 1)>> \o Split(SubSeq(cs, FirstSemi(cs) + 1, Len(cs)))

AllDigits(cs) == cs # <<>> /\ \A i \in 1..Len(cs) : cs[i] \in Digits

\* a statement "<digits>" or "<letter>=<digits>", and its digits
IsLitAssign(seg) == Len(seg) >= 3 /\ seg[1] \in Lower /\ seg[2] = "=" /\ AllDigits(SubSeq(seg, 3, Len(seg)))
IsLitStmt(seg) == AllDigits(seg) \/ IsLitAssign(seg)
LitOf(seg) == IF IsLitAssign(seg) THEN SubSeq(seg, 3, Len(seg)) ELSE seg

RECURSIVE Value(_)
\* the number a digit string denotes
Value(cs) ==
    IF cs = <<>> THEN 0 ELSE Value(SubSeq(cs, 1, Len(cs) - 1)) * 10 + DigitVal(cs[Len(cs)])

LitNode(seg) ==
    IF IsLitAssign(seg) THEN Assignment(seg[1], Number(Value(LitOf(seg)))) ELSE Number(Value(LitOf(seg)))

\* the text is a sequence of literal statements, written without whitespace
IsLiteralText(src) ==
    /\ src # <<>> /\ src[Len(src)] = ";"
    /\ \A i \in 1..Len(Split(src)) : IsLitStmt(Split(src)[i])

\* C11: a literal becomes Number(v) exactly when its value v is at most the
\* largest integer; the first literal above it makes parse_program return
\* InvalidNumber with that literal's text and no node, also for the
\* statements before that literal.
C11_InvalidNumber ==
    (Parsed /\ IsLiteralText(source)) =>
        LET segs == Split(source)
            bad == {i \in 1..Len(segs) : Value(LitOf(segs[i])) > MaxInt}
        IN  IF bad = {}
            THEN /\ parsed.ok
                 /\ parsed.nodes = [i \in 1..Len(segs) |-> LitNode(segs[i])]
            ELSE /\ ~parsed.ok
                 /\ parsed.nodes = <<>>
                 /\ parsed.err =
                      InvalidNumber(Str(LitOf(segs[CHOOSE i \in bad : \A j \in bad : i <= j])))

\* a text whose second statement holds the first literal past the largest
\* integer has been rejected with that literal's text and without the first node
C11_Witness ==
    /\ Parsed
    /\ IsLiteralText(source)
    /\ Len(Split(source)) = 2
    /\ Value(LitOf(Split(source)[1])) = MaxInt
    /\ Value(LitOf(Split(source)[2])) = MaxInt + 1
    /\ ~parsed.ok
    /\ parsed.nodes = <<>>
    /\ parsed.err = InvalidNumber(Str(LitOf(Split(source)[2])))

\* a literal with leading zeros whose value is the largest integer has been accepted
C11_WitnessAccepted ==
    /\ Parsed
    /\ IsLiteralText(source)
    /\ \E i \in 1..Len(Split(source)) :
          Len(LitOf(Split(source)[i])) >= 2 /\ Value(LitOf(Split(source)[i])) = MaxInt
    /\ parsed.ok

\* ------------------------------------------------------------------ C13
\* the names of the Assignment nodes among the first n nodes of ns, in order
RootNames(ns, n) ==
    LET A == SelectSeq(SubSeq(ns, 1, n), LAMBDA node : node.kind = "Assignment")
    IN  [i \in 1..Len(A) |-> A[i].name]

\* C13: parse_program returns one node per statement, the i-th node being
\* the node of the i-th statement of the text, and eval executes the nodes in
\* that order; the empty text yields Ok with no node, and evaluating no node
\* returns Ok and leaves the environment as it was.
C13_OneNodePerStatement ==
    /\ (Parsed /\ parsed.ok) =>
          /\ Len(parsed.nodes) = Cardinality({i \in 1..Len(source) : source[i] = ";"})
          /\ Len(parsed.nodes) = Len(Split(source))
          /\ \A i \in 1..Len(parsed.nodes) :
                parse_program(Split(source)[i] \o <<";">>).nodes = <<parsed.nodes[i]>>
    /\ (Ran /\ (pc = "loop" \/ result = "Ok")) =>
          /\ nodes = parsed.nodes
          /\ [i \in 1..Len(writes) |-> writes[i][1]] = RootNames(nodes, idx)
    /\ (Parsed /\ source = <<>>) => (parsed.ok /\ parsed.nodes = <<>>)
    /\ (pc = "returned" /\ nodes = <<>>) =>
          (result = "Ok" /\ variables = env0 /\ writes = <<>>)

\* a text of three different statements has been parsed to three nodes and
\* evaluated, the later statements reading what the earlier ones assigned
C13_Witness ==
    /\ pc = "returned"
    /\ result = "Ok"
    /\ Len(Split(source)) = 3
    /\ parsed.nodes = <<Assignment("x", Number(1)),
                        Assignment("x", Add(Identifier("x"), Number(1))),
                        Assignment("y", Identifier("x"))>>
    /\ writes = << <<"x", 1>>, <<"x", 2>>, <<"y", 2>> >>

\* the empty text has been parsed to no node and evaluated
C13_WitnessEmpty ==
    /\ source = <<>>
    /\ parsed.ok /\ parsed.nodes = <<>>
    /\ pc = "returned" /\ result = "Ok" /\ variables = EmptyMap

\* ------------------------------------------------------------------ C14
\* C14: a new interpreter has an empty environment; a statement without an
\* Assignment node leaves the environment as it was, whether it evaluates to
\* a value or fails; and an Assignment whose value holds no Assignment changes
\* at most the binding of its own name.
C14_OnlyAssignmentWrites ==
    /\ (fresh /\ pc = "idle") => variables = EmptyMap
    /\ (Ran /\ AssignedNames(LastStmt) = {}) => variables = before
    /\ (Ran /\ LastStmt.kind = "Assignment" /\ AssignedNames(LastStmt.value) = {}) =>
          \A n \in (DOMAIN variables \cup DOMAIN before) \ {LastStmt.name} :
             Binding(variables, n) = Binding(before, n)

\* a statement without an Assignment has failed on an environment that holds
\* bindings, and the bindings are as they were
C14_Witness ==
    /\ Ran
    /\ AssignedNames(LastStmt) = {}
    /\ result \in {"Err", "Panic"}
    /\ before # EmptyMap
    /\ variables = before

\* an Assignment without a nested one has rebound its name to another value
\* next to a binding of another name
C14_WitnessAssignment ==
    /\ Ran
    /\ LastStmt.kind = "Assignment" /\ AssignedNames(LastStmt.value) = {}
    /\ LastStmt.name \in DOMAIN before
    /\ variables # before
    /\ DOMAIN before # {LastStmt.name}

\* ------------------------------------------------------------------ C15
\* C15: in the nodes parse_program returns an Assignment is only ever the
\* root of a statement; so a parsed statement makes at most one insert, an
\* Assignment statement exactly one once its value has evaluated and any
\* other statement none, and a parsed statement that fails leaves the
\* environment exactly as it was before it.
C15_AssignmentOnlyAtRoot ==
    /\ (Parsed /\ parsed.ok) =>
          \A i \in 1..Len(parsed.nodes) : InnerAssigned(parsed.nodes[i]) = {}
    /\ Ran =>
          /\ nodes = parsed.nodes
          /\ IF pc = "loop" \/ result = "Ok"
             THEN /\ Len(writes) = Len(RootNames(nodes, idx))
                  /\ LastStmt.kind = "Assignment" =>
                        writes[Len(writes)] = <<LastStmt.name, variables[LastStmt.name]>>
                  /\ LastStmt.kind # "Assignment" => variables = before
             ELSE /\ Len(writes) = Len(RootNames(nodes, idx - 1))
                  /\ variables = before

\* the second statement of a parsed program, an assignment, has failed after
\* the first one bound the same name, and the binding is the first one's
C15_Witness ==
    /\ Ran
    /\ idx = 2
    /\ result = "Err"
    /\ nodes[1].kind = "Assignment"
    /\ nodes[2].kind = "Assignment"
    /\ nodes[2].name = nodes[1].name
    /\ variables = before
    /\ before # EmptyMap
    /\ Len(writes) = 1

====
